---------------------------- MODULE Spec2Model ----------------------------
(***************************************************************************)
(* Seatify backend (src/backend/main.py): sun-exposure estimation for the  *)
(* seats of a bus along a driving route.                                   *)
(*                                                                         *)
(* Four specifications, one per component of the program:                  *)
(*   SpecNormalize  normalize                                              *)
(*   SpecSeats      build_seat_list                                        *)
(*   SpecExposure   compute_exposure (with haversine, calculate_bearing)   *)
(*   SpecRequest    seat_recommendation, geocode_location, get_route and   *)
(*                  the two module-level caches                            *)
(*                                                                         *)
(* Numbers.  The program computes in binary floating point; the model      *)
(* computes in exact arithmetic on scaled integers:                        *)
(*   angles                   whole degrees                                *)
(*   quadrant totals (seats)  1/1000 minute                                *)
(*   exposure_minutes         1/100 minute  (the result of round(x, 2))    *)
(*   exposure_ratio           1/1000        (the result of round(x, 3))    *)
(* Floating-point rounding error is outside the model.                     *)
(***************************************************************************)
EXTENDS Integers, Sequences, FiniteSets, TLC

\* ------------------------------------------------------------------------
\* Program constants (main.py:29-31)
\* ------------------------------------------------------------------------
TOTAL_ROWS == 12

SIDE_THRESHOLD == 30

SAMPLE_INTERVAL_KM == 5

\* ------------------------------------------------------------------------
\* Bounds of the model
\* ------------------------------------------------------------------------
\* normalize is applied to every whole angle in -MaxAngle..MaxAngle
MaxAngle == 540

\* largest quadrant total handed to build_seat_list, in minutes
MaxMinutes == 90

\* compute_exposure: a polyline has 1..MaxPoints points, all on the prime
\* meridian or all on the equator, at 0, 1 or MaxKm km of arc from (0, 0)
MaxPoints == 3

MaxKm == 6

\* the positive total_duration tried, in seconds
MaxDuration == 600

\* seat_recommendation: the number of requests the process receives, two of
\* them being served at a time
MaxRequests == 3

VARIABLES
    \* the module-level caches, the requests being served and the number
    \* of requests received so far
    geocode_cache, route_cache, req, received,
    \* normalize
    angle, normalized, renormalized, npc,
    \* build_seat_list
    exposure, seats, row, max_exp, spc,
    \* compute_exposure: arguments, locals and returned value
    coords, total_duration, dt, epc,
    segment_distances, total_distance, current_time,
    seg, seg_time_s, seg_bearing, n_sub, sub_time_s,
    sub, observer, sub_time, sun_az, sun_el,
    front_left, back_left, front_right, back_right, result,
    \* compute_exposure: history (the number of solar-position queries, of
    \* samples that added nothing, and of those with a positive sub-interval)
    sun_queries, idle_samples, idle_timed_samples

nvars == <<angle, normalized, renormalized, npc>>

svars == <<exposure, seats, row, max_exp, spc>>

evars == <<coords, total_duration, dt, epc, segment_distances,
           total_distance, current_time, seg, seg_time_s, seg_bearing,
           n_sub, sub_time_s, sub, observer, sub_time, sun_az, sun_el,
           front_left, back_left, front_right, back_right, result,
           sun_queries, idle_samples, idle_timed_samples>>

rvars == <<geocode_cache, route_cache, req, received>>

vars == <<nvars, svars, evars, rvars>>

\* a value for a local that has not been assigned yet
Unset == "unset"

Abs(x) == IF x < 0 THEN -x ELSE x

Max2(a, b) == IF a >= b THEN a ELSE b

\* ------------------------------------------------------------------------
\* normalize (main.py:34-35).  Python's % takes the sign of the divisor, as
\* TLA+'s % does.
\* ------------------------------------------------------------------------
\* the shift by 180 forgotten
normalize_unshifted(a) == a % 360

normalize(a) == ((a + 180) % 360) - 180

NormalizeIdle ==
    /\ angle = 0
    /\ normalized = Unset
    /\ renormalized = Unset
    /\ npc = "idle"

InitNormalize ==
    /\ angle \in -MaxAngle..MaxAngle
    /\ normalized = Unset
    /\ renormalized = Unset
    /\ npc = "call"

\* normalized = normalize(angle)
NormalizeCall ==
    /\ npc = "call"
    /\ normalized' = normalize(angle)
    /\ npc' = "again"
    /\ UNCHANGED <<angle, renormalized>>

\* renormalized = normalize(normalized)
NormalizeAgain ==
    /\ npc = "again"
    /\ renormalized' = normalize(normalized)
    /\ npc' = "done"
    /\ UNCHANGED <<angle, normalized>>

\* ------------------------------------------------------------------------
\* build_seat_list (main.py:185-212)
\* ------------------------------------------------------------------------
\* Python's round(): to the nearest multiple, a tie going to the even one.
\* RoundHalfEven(num, den) is num/den rounded to a whole number, num >= 0.
RoundHalfEven(num, den) ==
    LET q == num \div den
        r == num % den
    IN  IF 2 * r < den THEN q
        ELSE IF 2 * r > den THEN q + 1
        ELSE IF q % 2 = 0 THEN q ELSE q + 1

\* the five seats of a row: seat_id prefix and letter, side, position and
\* the multiplier of the side base in percent (main.py:201-205)
SeatLayout ==
    << [prefix |-> "L", letter |-> "A", side |-> "LEFT",
        position |-> "WINDOW", mult |-> 100],
       [prefix |-> "L", letter |-> "B", side |-> "LEFT",
        position |-> "AISLE", mult |-> 25],
       [prefix |-> "R", letter |-> "C", side |-> "RIGHT",
        position |-> "WINDOW", mult |-> 100],
       [prefix |-> "R", letter |-> "B", side |-> "RIGHT",
        position |-> "MIDDLE", mult |-> 40],
       [prefix |-> "R", letter |-> "A", side |-> "RIGHT",
        position |-> "AISLE", mult |-> 15] >>

\* front_w and back_w of a row are FrontWeight / total_rows and
\* BackWeight / total_rows (main.py:194-195)
FrontWeight(r, total_rows) == total_rows - r

BackWeight(r, total_rows) == r

\* left_base and right_base times total_rows, in 1/1000 minute
\* (main.py:197-198)
LeftBase(e, r, total_rows) ==
    FrontWeight(r, total_rows) * e.front_left
        + BackWeight(r, total_rows) * e.back_left

RightBase(e, r, total_rows) ==
    FrontWeight(r, total_rows) * e.front_right
        + BackWeight(r, total_rows) * e.back_right

\* round(base * multiplier, 2), in 1/100 minute
ExposureMinutes(base, mult, total_rows) ==
    RoundHalfEven(base * mult, total_rows * 1000)

\* the seats appended for one row (main.py:200-206)
RowSeats(e, r, total_rows) ==
    [k \in 1..5 |->
        LET s == SeatLayout[k]
            base == IF s.side = "LEFT" THEN LeftBase(e, r, total_rows)
                                       ELSE RightBase(e, r, total_rows)
        IN  [seat_id |-> <<s.prefix, r, s.letter>>,
             row |-> r,
             side |-> s.side,
             position |-> s.position,
             exposure_minutes |-> ExposureMinutes(base, s.mult, total_rows)]]

\* a maximum taken from the first seat only
MaxExposure_first(ss) == IF Len(ss) = 0 THEN 0 ELSE ss[1].exposure_minutes

\* max((s["exposure_minutes"] for s in seats), default=0) (main.py:208)
MaxExposure(ss) ==
    IF Len(ss) = 0 THEN 0
    ELSE LET values == {ss[k].exposure_minutes : k \in 1..Len(ss)}
         IN  CHOOSE m \in values : \A v \in values : v <= m

\* a ratio scaled as a percentage
ExposureRatio_percent(minutes, mx) ==
    IF mx > 0 THEN RoundHalfEven(minutes * 100, mx) ELSE 0

\* round(exposure_minutes / max_exp, 3) if max_exp > 0 else 0.0, in 1/1000
\* (main.py:210)
ExposureRatio(minutes, mx) ==
    IF mx > 0 THEN RoundHalfEven(minutes * 1000, mx) ELSE 0

TotalValues == {0, 1, 4, 60000, MaxMinutes * 1000}

ExposureTotals ==
    [front_left : TotalValues, back_left : TotalValues,
     front_right : TotalValues, back_right : TotalValues]

SeatsIdle ==
    /\ exposure = [front_left |-> 0, back_left |-> 0,
                   front_right |-> 0, back_right |-> 0]
    /\ seats = <<>>
    /\ row = 0
    /\ max_exp = Unset
    /\ spc = "idle"

InitSeats ==
    /\ exposure \in ExposureTotals
    /\ seats = <<>>
    /\ row = 1
    /\ max_exp = Unset
    /\ spc = "rows"

\* one iteration of "for row in range(1, total_rows + 1)" (main.py:193-206)
BuildRow ==
    /\ spc = "rows"
    /\ row <= TOTAL_ROWS
    /\ seats' = seats \o RowSeats(exposure, row, TOTAL_ROWS)
    /\ row' = row + 1
    /\ UNCHANGED <<exposure, max_exp, spc>>

\* after the loop: max_exp and every seat's exposure_ratio, then return
\* (main.py:208-212)
BuildRatios ==
    /\ spc = "rows"
    /\ row > TOTAL_ROWS
    /\ LET mx == MaxExposure(seats)
       IN  /\ max_exp' = mx
           /\ seats' = [k \in 1..Len(seats) |->
                 [seat_id |-> seats[k].seat_id,
                  row |-> seats[k].row,
                  side |-> seats[k].side,
                  position |-> seats[k].position,
                  exposure_minutes |-> seats[k].exposure_minutes,
                  exposure_ratio |->
                      ExposureRatio(seats[k].exposure_minutes, mx)]]
    /\ spc' = "done"
    /\ UNCHANGED <<exposure, row>>

\* ------------------------------------------------------------------------
\* haversine and calculate_bearing (main.py:38-56)
\*
\* Coordinates are whole numbers of km of arc (degrees * pi * 6371 / 180),
\* and the points of a polyline lie all on the prime meridian or all on the
\* equator.  There the great-circle distance is the difference of the
\* coordinate that varies, and the initial bearing is one of 0, 90, 180, 270.
\* ------------------------------------------------------------------------
haversine(lat1, lon1, lat2, lon2) ==
    IF lon1 = lon2 THEN Abs(lat2 - lat1) ELSE Abs(lon2 - lon1)

\* atan2(x, y) of main.py:56 in degrees, wrapped into [0, 360); equal points
\* give atan2(0, 0) = 0
calculate_bearing(lat1, lon1, lat2, lon2) ==
    IF lon2 > lon1 THEN 90
    ELSE IF lon2 < lon1 THEN 270
    ELSE IF lat2 < lat1 THEN 180
    ELSE 0

\* ------------------------------------------------------------------------
\* compute_exposure (main.py:115-182)
\*
\* Exact arithmetic.  With D = total_distance and L = NSubScale, a multiple
\* of every n_sub, times are kept in units of 1/(2*D*L) second and minutes
\* in units of 1/(60*2*D*L) minute, so that seg_time_s, sub_time_s, the
\* sample timestamps and the accumulators are whole numbers.  In these units
\* total_duration seconds, and total_duration / 60 minutes, are
\* total_duration * 2 * D * L.
\* ------------------------------------------------------------------------
CeilDiv(a, b) == (a + b - 1) \div b

\* n_sub = max(1, math.ceil(seg_dist / SAMPLE_INTERVAL_KM)) (main.py:143)
NSub(seg_dist) == Max2(1, CeilDiv(seg_dist, SAMPLE_INTERVAL_KM))

RECURSIVE Factorial(_)
Factorial(n) == IF n <= 1 THEN 1 ELSE n * Factorial(n - 1)

NSubScale == Factorial(NSub(MaxKm))

TimeUnits(total) == 2 * total * NSubScale

\* seg_time_s = (seg_dist / total_distance) * total_duration (main.py:137)
SegTime(seg_dist, total, duration) == seg_dist * duration * 2 * NSubScale

\* the division by n_sub forgotten
SubTime_undivided(segtime, n) == segtime

\* sub_time_s = seg_time_s / n_sub (main.py:144)
SubTime(segtime, n) == segtime \div n

\* seg_time_s * frac_mid with frac_mid = (sub + 0.5) / n_sub
\* (main.py:147, 151)
MidOffset(segtime, k, n) == (segtime \div (2 * n)) * (2 * k + 1)

\* lat1 + (lat2 - lat1) * frac_mid, in units of 1/(2*L) km (main.py:149-150)
Interpolate(a, b, k, n) ==
    a * 2 * NSubScale + (b - a) * (NSubScale \div n) * (2 * k + 1)

\* the front/back boundary moved: 90 degrees counted as back
Quadrant_strict90(az, el, bearing) ==
    LET relative == normalize(az - bearing)
        abs_rel == Abs(relative)
    IN  IF el > 0 /\ SIDE_THRESHOLD <= abs_rel /\ abs_rel <= 150
        THEN IF relative > 0
             THEN IF abs_rel < 90 THEN "front_right" ELSE "back_right"
             ELSE IF abs_rel < 90 THEN "front_left" ELSE "back_left"
        ELSE "none"

\* the accumulator a sample adds to, "none" when it adds nothing
\* (main.py:157-173)
Quadrant(az, el, bearing) ==
    IF el > 0
    THEN LET relative == normalize(az - bearing)
             abs_rel == Abs(relative)
         IN  IF SIDE_THRESHOLD <= abs_rel /\ abs_rel <= 150
             THEN IF relative > 0
                  THEN IF abs_rel <= 90 THEN "front_right" ELSE "back_right"
                  ELSE IF abs_rel <= 90 THEN "front_left" ELSE "back_left"
             ELSE "none"
    ELSE "none"

\* the guard left out
ZeroDistance_never(total) == FALSE

\* if total_distance == 0 (main.py:131)
ZeroDistance(total) == total = 0

\* sun azimuths in [0, 360) and elevations returned by astral
Azimuths == {0, 30, 90, 91, 150, 151, 209, 270, 331}

Elevations == {-1, 0, 1}

PositionsKm == {0, 1, MaxKm}

\* [lon, lat] pairs, as in the GeoJSON geometry
MeridianPoints == {<<0, y>> : y \in PositionsKm}

EquatorPoints == {<<x, 0>> : x \in PositionsKm}

Polylines ==
    UNION {[1..n -> MeridianPoints] \cup [1..n -> EquatorPoints] :
              n \in 1..MaxPoints}

Durations == {0, MaxDuration}

\* departure, in seconds after midnight
Departures == {0, 43200}

ZeroTotals ==
    [front_left |-> 0, back_left |-> 0, front_right |-> 0, back_right |-> 0]

ExposureLocalsInit ==
    /\ segment_distances = <<>>
    /\ total_distance = 0
    /\ current_time = 0
    /\ seg = 0
    /\ seg_time_s = 0
    /\ seg_bearing = 0
    /\ n_sub = 0
    /\ sub_time_s = 0
    /\ sub = 0
    /\ observer = <<0, 0>>
    /\ sub_time = 0
    /\ sun_az = 0
    /\ sun_el = 0
    /\ front_left = 0
    /\ back_left = 0
    /\ front_right = 0
    /\ back_right = 0
    /\ result = Unset
    /\ sun_queries = 0
    /\ idle_samples = 0
    /\ idle_timed_samples = 0

ExposureIdle ==
    /\ coords = <<>>
    /\ total_duration = 0
    /\ dt = 0
    /\ epc = "idle"
    /\ ExposureLocalsInit

InitExposure ==
    /\ coords \in Polylines
    /\ total_duration \in Durations
    /\ dt \in Departures
    /\ epc = "distances"
    /\ ExposureLocalsInit

\* the first loop: segment_distances and total_distance (main.py:122-129)
ComputeDistances ==
    /\ epc = "distances"
    /\ LET d == [k \in 1..(Len(coords) - 1) |->
                    haversine(coords[k][2], coords[k][1],
                              coords[k + 1][2], coords[k + 1][1])]
           RECURSIVE Sum(_)
           Sum(n) == IF n = 0 THEN 0 ELSE d[n] + Sum(n - 1)
       IN  /\ segment_distances' = d
           /\ total_distance' = Sum(Len(d))
    /\ epc' = "guard"
    /\ UNCHANGED <<coords, total_duration, dt, current_time, seg,
                   seg_time_s, seg_bearing, n_sub, sub_time_s, sub,
                   observer, sub_time, sun_az, sun_el, front_left,
                   back_left, front_right, back_right, result, sun_queries,
                   idle_samples, idle_timed_samples>>

\* total distance zero: return all-zero totals (main.py:131-132)
ReturnZero ==
    /\ epc = "guard"
    /\ ZeroDistance(total_distance)
    /\ result' = ZeroTotals
    /\ epc' = "done"
    /\ UNCHANGED <<coords, total_duration, dt, segment_distances,
                   total_distance, current_time, seg, seg_time_s,
                   seg_bearing, n_sub, sub_time_s, sub, observer, sub_time,
                   sun_az, sun_el, front_left, back_left, front_right,
                   back_right, sun_queries, idle_samples,
                   idle_timed_samples>>

\* current_time = dt, and the walk starts (main.py:134-136)
BeginWalk ==
    /\ epc = "guard"
    /\ ~ZeroDistance(total_distance)
    /\ current_time' = dt * TimeUnits(total_distance)
    /\ seg' = 1
    /\ epc' = "segment"
    /\ UNCHANGED <<coords, total_duration, dt, segment_distances,
                   total_distance, seg_time_s, seg_bearing, n_sub,
                   sub_time_s, sub, observer, sub_time, sun_az, sun_el,
                   front_left, back_left, front_right, back_right, result,
                   sun_queries, idle_samples, idle_timed_samples>>

\* the head of one iteration of the walk: seg_time_s, seg_bearing, n_sub and
\* sub_time_s (main.py:136-144); a zero total_distance raises
\* ZeroDivisionError at main.py:137
BeginSegment ==
    /\ epc = "segment"
    /\ seg <= Len(segment_distances)
    /\ IF total_distance = 0
       THEN /\ epc' = "ZeroDivisionError"
            /\ UNCHANGED <<seg_time_s, seg_bearing, n_sub, sub_time_s, sub>>
       ELSE LET seg_dist == segment_distances[seg]
                t == SegTime(seg_dist, total_distance, total_duration)
                n == NSub(seg_dist)
            IN  /\ seg_time_s' = t
                /\ seg_bearing' =
                      calculate_bearing(coords[seg][2], coords[seg][1],
                                        coords[seg + 1][2], coords[seg + 1][1])
                /\ n_sub' = n
                /\ sub_time_s' = SubTime(t, n)
                /\ sub' = 0
                /\ epc' = "sample"
    /\ UNCHANGED <<coords, total_duration, dt, segment_distances,
                   total_distance, current_time, seg, observer, sub_time,
                   sun_az, sun_el, front_left, back_left, front_right,
                   back_right, result, sun_queries, idle_samples,
                   idle_timed_samples>>

\* one iteration of "for sub in range(n_sub)": the sample point and time,
\* the solar position there (any azimuth and elevation), and the
\* accumulation (main.py:146-173)
Sample ==
    /\ epc = "sample"
    /\ sub < n_sub
    /\ observer' =
          <<Interpolate(coords[seg][2], coords[seg + 1][2], sub, n_sub),
            Interpolate(coords[seg][1], coords[seg + 1][1], sub, n_sub)>>
    /\ sub_time' = current_time + MidOffset(seg_time_s, sub, n_sub)
    /\ \E az \in Azimuths, el \in Elevations :
          LET q == Quadrant(az, el, seg_bearing)
              mins == sub_time_s
          IN  /\ sun_az' = az
              /\ sun_el' = el
              /\ front_right' =
                    IF q = "front_right" THEN front_right + mins
                                         ELSE front_right
              /\ back_right' =
                    IF q = "back_right" THEN back_right + mins
                                        ELSE back_right
              /\ front_left' =
                    IF q = "front_left" THEN front_left + mins
                                        ELSE front_left
              /\ back_left' =
                    IF q = "back_left" THEN back_left + mins ELSE back_left
              /\ idle_samples' =
                    IF q = "none" THEN idle_samples + 1 ELSE idle_samples
              /\ idle_timed_samples' =
                    IF q = "none" /\ sub_time_s > 0
                    THEN idle_timed_samples + 1 ELSE idle_timed_samples
    /\ sun_queries' = sun_queries + 1
    /\ sub' = sub + 1
    /\ UNCHANGED <<coords, total_duration, dt, epc, segment_distances,
                   total_distance, current_time, seg, seg_time_s,
                   seg_bearing, n_sub, sub_time_s, result>>

\* current_time += timedelta(seconds=seg_time_s) (main.py:175)
EndSegment ==
    /\ epc = "sample"
    /\ sub = n_sub
    /\ current_time' = current_time + seg_time_s
    /\ seg' = seg + 1
    /\ epc' = "segment"
    /\ UNCHANGED <<coords, total_duration, dt, segment_distances,
                   total_distance, seg_time_s, seg_bearing, n_sub,
                   sub_time_s, sub, observer, sub_time, sun_az, sun_el,
                   front_left, back_left, front_right, back_right, result,
                   sun_queries, idle_samples, idle_timed_samples>>

\* return the four accumulators (main.py:177-182)
ReturnTotals ==
    /\ epc = "segment"
    /\ seg > Len(segment_distances)
    /\ result' = [front_left |-> front_left, back_left |-> back_left,
                  front_right |-> front_right, back_right |-> back_right]
    /\ epc' = "done"
    /\ UNCHANGED <<coords, total_duration, dt, segment_distances,
                   total_distance, current_time, seg, seg_time_s,
                   seg_bearing, n_sub, sub_time_s, sub, observer, sub_time,
                   sun_az, sun_el, front_left, back_left, front_right,
                   back_right, sun_queries, idle_samples,
                   idle_timed_samples>>

\* ------------------------------------------------------------------------
\* geocode_location, get_route and seat_recommendation (main.py:59-112,
\* 215-257)
\*
\* A place name is a sequence of characters.  A coordinate is a pair
\* <<lat, lon>> in units of 1/100000 degree.  A dict is a function whose
\* domain is the set of its keys; None is the empty tuple.  The coroutines
\* run on one event loop, so the code between two awaits is one step.  A
\* local of seat_recommendation is kept until its last use.
\* ------------------------------------------------------------------------
None == <<>>

Lower(c) ==
    CASE c = "A" -> "a"
      [] c = "B" -> "b"
      [] OTHER -> c

RECURSIVE LStrip(_)
LStrip(str) ==
    IF str # <<>> /\ Head(str) = " " THEN LStrip(Tail(str)) ELSE str

RECURSIVE RStrip(_)
RStrip(str) ==
    IF str # <<>> /\ str[Len(str)] = " "
    THEN RStrip(SubSeq(str, 1, Len(str) - 1)) ELSE str

\* key = place_name.strip().lower() (main.py:60)
GeocodeKey(place_name) ==
    LET stripped == RStrip(LStrip(place_name))
    IN  [k \in 1..Len(stripped) |-> Lower(stripped[k])]

\* f"{x:.4f}": x rounded to 4 decimals, in units of 1/10000 degree
Fmt4(x) == RoundHalfEven(x, 10)

\* key of _route_cache (main.py:93)
RouteKey(start_coords, end_coords) ==
    <<Fmt4(start_coords[1]), Fmt4(start_coords[2]),
      Fmt4(end_coords[1]), Fmt4(end_coords[2])>>

\* d[key] = value
DictSet(d, key, value) ==
    [k \in DOMAIN d \cup {key} |-> IF k = key THEN value ELSE d[k]]

\* only a found coordinate is stored
GeocodeStore_foundOnly(cache, key, value) ==
    IF value = None THEN cache ELSE DictSet(cache, key, value)

\* _geocode_cache[key] = result, or None when the answer is empty or the
\* request raised (main.py:75, 79, 85)
GeocodeStore(cache, key, value) == DictSet(cache, key, value)

\* _route_cache[key] = (coords, duration) on success; a failure raises
\* before the store (main.py:103-110)
RouteStore(cache, key, ok, value) ==
    IF ok THEN DictSet(cache, key, value) ELSE cache

\* only the origin checked
FirstUnresolved_startOnly(start_coords, end_coords) ==
    IF start_coords = None THEN 1 ELSE 0

\* the checks after the gather: 1 when the origin is unresolved, else 2 when
\* the destination is, else 0 (main.py:227-230)
FirstUnresolved(start_coords, end_coords) ==
    IF start_coords = None THEN 1
    ELSE IF end_coords = None THEN 2
    ELSE 0

PlaceNames == {<<"a">>, <<" ", "A">>, <<"b">>}

\* two coordinates that differ in the fifth decimal only
GeoCoords == {<<1297163, 7759456>>, <<1297158, 7759456>>}

RouteResults ==
    {<< <<<<0, 0>>, <<0, MaxKm>>>>, MaxDuration >>, << <<<<0, 0>>>>, 0 >>}

\* the requests in progress at one time
Requests == {1, 2}

NewRequest ==
    [pc |-> "idle", start_location |-> <<>>, end_location |-> <<>>,
     gpc |-> <<"start", "start">>, coords |-> <<None, None>>,
     route |-> None, status |-> 0, detail |-> <<>>]

RequestIdle ==
    /\ geocode_cache = <<>>
    /\ route_cache = <<>>
    /\ req = <<>>
    /\ received = 0

InitRequest ==
    /\ geocode_cache = <<>>
    /\ route_cache = <<>>
    /\ req = [r \in Requests |-> NewRequest]
    /\ received = 0

Location(r, t) ==
    IF t = 1 THEN req[r].start_location ELSE req[r].end_location

\* GET /seat_recommendation arrives, taking the place of a request that has
\* been answered; asyncio.gather creates the two geocode_location tasks
\* (main.py:216-225)
Receive(r) ==
    /\ req[r].pc \in {"idle", "done", "failed"}
    /\ received < MaxRequests
    /\ received' = received + 1
    /\ \E s \in PlaceNames, e \in PlaceNames :
          req' = [req EXCEPT ![r] = [NewRequest EXCEPT
                                        !.pc = "gather",
                                        !.start_location = s,
                                        !.end_location = e]]
    /\ UNCHANGED <<geocode_cache, route_cache>>

\* geocode_location up to its first await: a cached key returns the entry
\* (task position "cached"), any other key issues the Nominatim request
\* (task position "http") (main.py:60-70).  The tasks of a gather start in
\* order.
GeocodeStart(r, t) ==
    /\ req[r].pc = "gather"
    /\ req[r].gpc[t] = "start"
    /\ t = 2 => req[r].gpc[1] # "start"
    /\ LET key == GeocodeKey(Location(r, t))
       IN  IF key \in DOMAIN geocode_cache
           THEN req' = [req EXCEPT ![r].gpc[t] = "cached",
                                   ![r].coords[t] = geocode_cache[key]]
           ELSE req' = [req EXCEPT ![r].gpc[t] = "http"]
    /\ UNCHANGED <<geocode_cache, route_cache, received>>

\* the Nominatim request completes with a coordinate, with an empty answer
\* or with an exception; the outcome is stored and returned (task position
\* "fetched") (main.py:70-86).  No response is handled before both tasks of
\* the gather ran their first step.
GeocodeResponse(r, t) ==
    /\ req[r].pc = "gather"
    /\ req[r].gpc[t] = "http"
    /\ req[r].gpc[1] # "start" /\ req[r].gpc[2] # "start"
    /\ \E value \in GeoCoords \cup {None} :
          /\ geocode_cache' =
                GeocodeStore(geocode_cache, GeocodeKey(Location(r, t)), value)
          /\ req' = [req EXCEPT ![r].gpc[t] = "fetched",
                                ![r].coords[t] = value]
    /\ UNCHANGED <<route_cache, received>>

\* both lookups returned: 400 naming the first unresolved location, else the
\* coordinates are unpacked (main.py:222-233); unpacking None raises
\* TypeError
GatherDone(r) ==
    /\ req[r].pc = "gather"
    /\ req[r].gpc[1] \in {"cached", "fetched"}
    /\ req[r].gpc[2] \in {"cached", "fetched"}
    /\ LET u == FirstUnresolved(req[r].coords[1], req[r].coords[2])
       IN  IF u # 0
           THEN req' = [req EXCEPT ![r] = [NewRequest EXCEPT
                                              !.pc = "failed",
                                              !.status = 400,
                                              !.detail = Location(r, u)]]
           ELSE IF req[r].coords[1] = None \/ req[r].coords[2] = None
           THEN req' = [req EXCEPT ![r].pc = "TypeError"]
           ELSE req' = [req EXCEPT ![r].pc = "parse",
                                   ![r].start_location = <<>>,
                                   ![r].end_location = <<>>,
                                   ![r].gpc = <<"start", "start">>]
    /\ UNCHANGED <<geocode_cache, route_cache, received>>

\* date and time are parsed; a malformed value is a 400 (main.py:235-240)
ParseDateTime(r) ==
    /\ req[r].pc = "parse"
    /\ \E well_formed \in BOOLEAN :
          IF well_formed
          THEN req' = [req EXCEPT ![r].pc = "route"]
          ELSE req' = [req EXCEPT ![r] = [NewRequest EXCEPT
                                             !.pc = "failed",
                                             !.status = 400,
                                             !.detail = <<"Invalid format">>]]
    /\ UNCHANGED <<geocode_cache, route_cache, received>>

\* get_route up to its first await: a cached key returns the entry, any
\* other key issues the OSRM request (main.py:93-104, 243)
RouteStart(r) ==
    /\ req[r].pc = "route"
    /\ LET key == RouteKey(req[r].coords[1], req[r].coords[2])
       IN  IF key \in DOMAIN route_cache
           THEN req' = [req EXCEPT ![r].pc = "compute",
                                   ![r].coords = <<None, None>>,
                                   ![r].route = route_cache[key]]
           ELSE req' = [req EXCEPT ![r].pc = "route_http"]
    /\ UNCHANGED <<geocode_cache, route_cache, received>>

\* the OSRM request completes: a route is stored and returned; an error
\* status, a timeout or an answer without a route raises, which
\* seat_recommendation turns into a 502 (main.py:103-112, 242-246)
RouteResponse(r) ==
    /\ req[r].pc = "route_http"
    /\ LET key == RouteKey(req[r].coords[1], req[r].coords[2])
       IN  \/ \E value \in RouteResults :
                /\ route_cache' = RouteStore(route_cache, key, TRUE, value)
                /\ req' = [req EXCEPT ![r].pc = "compute",
                                      ![r].coords = <<None, None>>,
                                      ![r].route = value]
           \/ /\ route_cache' = RouteStore(route_cache, key, FALSE, None)
              /\ req' = [req EXCEPT ![r] = [NewRequest EXCEPT
                                    !.pc = "failed",
                                    !.status = 502,
                                    !.detail = <<"Could not fetch route">>]]
    /\ UNCHANGED <<geocode_cache, received>>

\* compute_exposure and build_seat_list run on the route (they are modelled
\* by SpecExposure and SpecSeats) and the response is returned
\* (main.py:248-257)
Respond(r) ==
    /\ req[r].pc = "compute"
    /\ req' = [req EXCEPT ![r] = [NewRequest EXCEPT
                                     !.pc = "done", !.status = 200]]
    /\ UNCHANGED <<geocode_cache, route_cache, received>>

\* ------------------------------------------------------------------------
\* Specifications
\* ------------------------------------------------------------------------
NextNormalize ==
    \/ NormalizeCall /\ UNCHANGED <<svars, evars, rvars>>
    \/ NormalizeAgain /\ UNCHANGED <<svars, evars, rvars>>

\* the other components stay idle
StartNormalize == InitNormalize /\ SeatsIdle /\ ExposureIdle /\ RequestIdle

SpecNormalize == StartNormalize /\ [][NextNormalize]_vars

NextSeats ==
    \/ BuildRow /\ UNCHANGED <<nvars, evars, rvars>>
    \/ BuildRatios /\ UNCHANGED <<nvars, evars, rvars>>

\* the other components stay idle
StartSeats == InitSeats /\ NormalizeIdle /\ ExposureIdle /\ RequestIdle

SpecSeats == StartSeats /\ [][NextSeats]_vars

NextExposure ==
    \/ ComputeDistances /\ UNCHANGED <<nvars, svars, rvars>>
    \/ ReturnZero /\ UNCHANGED <<nvars, svars, rvars>>
    \/ BeginWalk /\ UNCHANGED <<nvars, svars, rvars>>
    \/ BeginSegment /\ UNCHANGED <<nvars, svars, rvars>>
    \/ Sample /\ UNCHANGED <<nvars, svars, rvars>>
    \/ EndSegment /\ UNCHANGED <<nvars, svars, rvars>>
    \/ ReturnTotals /\ UNCHANGED <<nvars, svars, rvars>>

\* the other components stay idle
StartExposure == InitExposure /\ NormalizeIdle /\ SeatsIdle /\ RequestIdle

SpecExposure == StartExposure /\ [][NextExposure]_vars

NextRequest ==
    \/ \E r \in Requests : Receive(r) /\ UNCHANGED <<nvars, svars, evars>>
    \/ \E r \in Requests, t \in 1..2 :
          GeocodeStart(r, t) /\ UNCHANGED <<nvars, svars, evars>>
    \/ \E r \in Requests, t \in 1..2 :
          GeocodeResponse(r, t) /\ UNCHANGED <<nvars, svars, evars>>
    \/ \E r \in Requests : GatherDone(r) /\ UNCHANGED <<nvars, svars, evars>>
    \/ \E r \in Requests :
          ParseDateTime(r) /\ UNCHANGED <<nvars, svars, evars>>
    \/ \E r \in Requests : RouteStart(r) /\ UNCHANGED <<nvars, svars, evars>>
    \/ \E r \in Requests :
          RouteResponse(r) /\ UNCHANGED <<nvars, svars, evars>>
    \/ \E r \in Requests : Respond(r) /\ UNCHANGED <<nvars, svars, evars>>

\* the other components stay idle
StartRequest == InitRequest /\ NormalizeIdle /\ SeatsIdle /\ ExposureIdle

SpecRequest == StartRequest /\ [][NextRequest]_vars

\* ------------------------------------------------------------------------
\* Properties of normalize
\* ------------------------------------------------------------------------
\* C3 as stated: normalize is idempotent and its result lies in
\* (-180, 180].
C3_Original ==
    /\ npc \in {"again", "done"} => (normalized > -180 /\ normalized <= 180)
    /\ npc = "done" => renormalized = normalized

\* C3, amended: normalize is idempotent and its result lies in the
\* half-open interval [-180, 180): an angle of 180 (plus any multiple of
\* 360) is mapped to -180.
C3_NormalizeRange ==
    /\ npc \in {"again", "done"} => (normalized >= -180 /\ normalized < 180)
    /\ npc = "done" => renormalized = normalized
    /\ (npc = "done" /\ (angle - 180) % 360 = 0) => normalized = -180

C3_Witness ==
    /\ npc = "done"
    /\ angle = 180
    /\ normalized = -180
    /\ renormalized = -180

\* ------------------------------------------------------------------------
\* Properties of compute_exposure
\* ------------------------------------------------------------------------
\* total_duration / 60 minutes, in the unit of the accumulators
BudgetMinutes == total_duration * TimeUnits(total_distance)

AccumulatedMinutes == front_left + back_left + front_right + back_right

ReturnedMinutes ==
    result.front_left + result.back_left
        + result.front_right + result.back_right

ReturnedWithinBudget ==
    /\ result.front_left >= 0
    /\ result.back_left >= 0
    /\ result.front_right >= 0
    /\ result.back_right >= 0
    /\ ReturnedMinutes <= BudgetMinutes

\* C1 as stated: with a positive total distance the four totals are >= 0,
\* their sum is <= total_duration / 60, and the sum equals it only if every
\* sample was lit (elevation > 0) and inside the band [30, 150].
C1_Original ==
    (epc = "done" /\ total_distance > 0) =>
        /\ ReturnedWithinBudget
        /\ ReturnedMinutes = BudgetMinutes => idle_samples = 0

\* C1, amended: with a positive total distance the four totals are >= 0 and
\* their sum is <= total_duration / 60; the sum equals it only if every
\* sample whose sub-interval has a positive duration was lit and inside the
\* band.  A sample of a zero-length segment, and every sample when
\* total_duration is 0, stands for 0 minutes and may be dark or outside the
\* band while the sum still equals total_duration / 60.
C1_ExposureWithinDuration ==
    /\ epc \notin {"idle", "distances", "guard"} =>
          /\ front_left >= 0 /\ back_left >= 0
          /\ front_right >= 0 /\ back_right >= 0
          /\ AccumulatedMinutes <= BudgetMinutes
    /\ (epc = "done" /\ total_distance > 0) =>
          /\ ReturnedWithinBudget
          /\ ReturnedMinutes = BudgetMinutes => idle_timed_samples = 0
          /\ idle_timed_samples > 0 => ReturnedMinutes < BudgetMinutes

C1_Witness ==
    /\ epc = "done"
    /\ total_distance > 0
    /\ total_duration > 0
    /\ ReturnedMinutes = BudgetMinutes
    /\ idle_samples > 0

\* C2: a polyline of total distance zero (one point, or duplicate points)
\* yields four zero totals for every duration and departure time, with no
\* solar-position query and no division by zero.
C2_ZeroDistanceZeroTotals ==
    /\ epc # "ZeroDivisionError"
    /\ (total_distance = 0 /\ epc \notin {"idle", "distances", "guard"}) =>
          /\ epc = "done"
          /\ result = ZeroTotals
          /\ sun_queries = 0

C2_Witness ==
    /\ epc = "done"
    /\ Len(coords) >= 2
    /\ total_distance = 0
    /\ total_duration > 0
    /\ dt > 0
    /\ result = ZeroTotals
    /\ sun_queries = 0

\* C10: a sample adds nothing when the elevation is <= 0 or |relative| is
\* below 30 or above 150; otherwise it adds seg_time_s / n_sub to exactly one
\* accumulator: right iff relative > 0, front iff |relative| <= 90.
C10_SampleClassification ==
    [][sun_queries' = sun_queries + 1 =>
        LET relative == normalize(sun_az' - seg_bearing)
            counted == /\ sun_el' > 0
                       /\ ~(Abs(relative) < 30)
                       /\ ~(Abs(relative) > 150)
            right == relative > 0
            front == Abs(relative) <= 90
            Added(c) == IF counted /\ c THEN sub_time_s ELSE 0
        IN  /\ sub_time_s * n_sub = seg_time_s
            /\ front_right' = front_right + Added(right /\ front)
            /\ back_right' = back_right + Added(right /\ ~front)
            /\ front_left' = front_left + Added(~right /\ front)
            /\ back_left' = back_left + Added(~right /\ ~front)
      ]_vars

C10_Witness ==
    /\ epc = "sample"
    /\ sun_queries = 1
    /\ sun_el > 0
    /\ normalize(sun_az - seg_bearing) = -90
    /\ sub_time_s > 0
    /\ front_left = sub_time_s
    /\ back_left = 0
    /\ front_right = 0
    /\ back_right = 0

\* ------------------------------------------------------------------------
\* Properties of build_seat_list
\* ------------------------------------------------------------------------
SeatIndex == 1..Len(seats)

\* the position in the list of a seat of a row: 1 = L{r}A, 2 = L{r}B,
\* 3 = R{r}C, 4 = R{r}B, 5 = R{r}A
SeatAt(r, k) == seats[(r - 1) * 5 + k]

AllTotalsZero ==
    /\ exposure.front_left = 0
    /\ exposure.back_left = 0
    /\ exposure.front_right = 0
    /\ exposure.back_right = 0

FullRatioSeats == {k \in SeatIndex : seats[k].exposure_ratio = 1000}

HoldsMaximum(k) ==
    \A j \in SeatIndex : seats[j].exposure_minutes <= seats[k].exposure_minutes

\* C4 as stated: when the totals are not all zero, exactly one seat has
\* exposure_ratio 1.0.
C4_Original ==
    (spc = "done" /\ ~AllTotalsZero) => Cardinality(FullRatioSeats) = 1

\* C4, amended: when some seat's rounded exposure_minutes is positive, every
\* seat holding the global maximum exposure_minutes has exposure_ratio 1.0,
\* so at least one seat has it (several seats can share the maximum); when
\* every seat's exposure_minutes rounds to 0 no seat has exposure_ratio 1.0.
C4_MaximumSeatsHaveFullRatio ==
    spc = "done" =>
        /\ \A k \in SeatIndex :
              (HoldsMaximum(k) /\ seats[k].exposure_minutes > 0)
                  => seats[k].exposure_ratio = 1000
        /\ (\E k \in SeatIndex : seats[k].exposure_minutes > 0)
              => FullRatioSeats # {}
        /\ (\A k \in SeatIndex : seats[k].exposure_minutes = 0)
              => FullRatioSeats = {}

C4_Witness ==
    /\ spc = "done"
    /\ ~AllTotalsZero
    /\ Cardinality(FullRatioSeats) >= 2
    /\ \A k \in FullRatioSeats : HoldsMaximum(k)

\* C5: for non-negative totals every seat has exposure_minutes >= 0 and an
\* exposure_ratio in [0, 1], and when the four totals are zero the list is
\* completed with every exposure_ratio 0.0.
C5_SeatRanges ==
    /\ \A k \in SeatIndex : seats[k].exposure_minutes >= 0
    /\ spc = "done" =>
          /\ Len(seats) = 5 * TOTAL_ROWS
          /\ \A k \in SeatIndex :
                seats[k].exposure_ratio >= 0 /\ seats[k].exposure_ratio <= 1000
          /\ AllTotalsZero => \A k \in SeatIndex : seats[k].exposure_ratio = 0

C5_Witness ==
    /\ spc = "done"
    /\ exposure.back_left > exposure.front_left
    /\ exposure.front_left > 0
    /\ \E k \in SeatIndex :
          seats[k].exposure_ratio > 0 /\ seats[k].exposure_ratio < 1000

\* C6: row 1 is weighted fully toward the front: for the totals
\* {front_left: 60, others 0} and 12 rows, L1A has 60.00 minutes and L1B
\* 15.00, L12A 0.00, every RIGHT seat 0, the maximum is 60.00 at L1A, and
\* the ratios of L1A and L1B are 1.0 and 0.25.
C6_FrontRowScenario ==
    (/\ spc = "done"
     /\ exposure = [front_left |-> 60000, back_left |-> 0,
                    front_right |-> 0, back_right |-> 0])
    =>
        /\ SeatAt(1, 1).seat_id = <<"L", 1, "A">>
        /\ SeatAt(1, 1).exposure_minutes = 6000
        /\ SeatAt(1, 2).exposure_minutes = 1500
        /\ SeatAt(TOTAL_ROWS, 1).exposure_minutes = 0
        /\ \A k \in SeatIndex :
              seats[k].side = "RIGHT" => seats[k].exposure_minutes = 0
        /\ max_exp = 6000
        /\ SeatAt(1, 1).exposure_ratio = 1000
        /\ SeatAt(1, 2).exposure_ratio = 250

\* ------------------------------------------------------------------------
\* Properties of seat_recommendation and the caches
\* ------------------------------------------------------------------------
Returned(position) == position \in {"cached", "fetched"}

Unresolved(r) ==
    {Location(r, t) : t \in {u \in 1..2 : req[r].coords[u] = None}}

\* C7: the routing lookup is issued only after both geocoding lookups have
\* completed, and never when one of them returned not-found: then the
\* request ends with a 400 whose detail names an unresolved location, with
\* no route fetched and no exposure computed.
C7_RouteAfterGeocoding ==
    [][\A r \in Requests :
        /\ (req[r].pc = "gather" /\ req'[r].pc # "gather") =>
              /\ Returned(req[r].gpc[1]) /\ Returned(req[r].gpc[2])
              /\ IF Unresolved(r) # {}
                 THEN /\ req'[r].pc = "failed"
                      /\ req'[r].status = 400
                      /\ req'[r].detail \in Unresolved(r)
                      /\ req'[r].route = None
                 ELSE req'[r].pc = "parse"
        /\ (req'[r].pc = "parse" /\ req[r].pc # "parse") =>
              req[r].pc = "gather"
        /\ (req'[r].pc = "route" /\ req[r].pc # "route") =>
              req[r].pc = "parse"
        /\ (req'[r].pc \in {"route_http", "compute"} /\ req[r].pc = "route") =>
              req[r].coords[1] # None /\ req[r].coords[2] # None
        /\ (req'[r].pc = "route_http" /\ req[r].pc # "route_http") =>
              req[r].pc = "route"
        /\ (req'[r].pc = "compute" /\ req[r].pc # "compute") =>
              req[r].pc \in {"route", "route_http"}
        /\ (req'[r].pc = "done" /\ req[r].pc # "done") =>
              req[r].pc = "compute"
      ]_vars

C7_Witness ==
    \E r \in Requests :
        /\ req[r].pc = "failed"
        /\ req[r].status = 400
        /\ req[r].detail = <<"b">>
        /\ req[r].route = None
        /\ <<"b">> \in DOMAIN geocode_cache
        /\ geocode_cache[<<"b">>] = None
        /\ <<"a">> \in DOMAIN geocode_cache
        /\ geocode_cache[<<"a">>] # None
        /\ route_cache = <<>>

\* C8 as stated: both caches record negative results: a lookup that ends
\* not-found or fails leaves a negative entry under its key, in the geocode
\* cache and in the route cache, and a later lookup that finds the negative
\* entry returns it without an external request.
C8_Original ==
    [][/\ \A r \in Requests, t \in 1..2 :
            LET key == GeocodeKey(Location(r, t))
            IN  /\ (/\ req[r].pc = "gather" /\ req[r].gpc[t] = "http"
                    /\ req'[r].gpc[t] = "fetched"
                    /\ req'[r].coords[t] = None)
                   => (/\ key \in DOMAIN geocode_cache'
                       /\ geocode_cache'[key] = None)
                /\ (/\ req[r].pc = "gather" /\ req[r].gpc[t] = "start"
                    /\ req'[r].gpc[t] # "start"
                    /\ key \in DOMAIN geocode_cache)
                   => (/\ req'[r].gpc[t] = "cached"
                       /\ req'[r].coords[t] = geocode_cache[key])
       /\ \A r \in Requests :
            LET key == RouteKey(req[r].coords[1], req[r].coords[2])
            IN  /\ (req[r].pc = "route_http" /\ req'[r].status = 502)
                   => (key \in DOMAIN route_cache' /\ route_cache'[key] = None)
                /\ (/\ req[r].pc = "route" /\ req'[r].pc # "route"
                    /\ key \in DOMAIN route_cache)
                   => req'[r].pc # "route_http"
      ]_vars

\* C8, amended: only the geocode cache records negative results.  A geocode
\* lookup that ends not-found or fails stores a not-found entry under the
\* normalized name, and a lookup whose key has an entry, negative or not,
\* returns the entry as it is at that moment without an external request
\* (a lookup of the same key that was already in flight may have replaced
\* it).  A failed routing lookup leaves the route cache as it was, and a
\* lookup whose key has no entry issues an external request, whether or not
\* an earlier lookup of that key failed.
C8_NegativeGeocodeOnly ==
    [][/\ \A r \in Requests, t \in 1..2 :
            LET key == GeocodeKey(Location(r, t))
            IN  /\ (/\ req[r].pc = "gather" /\ req[r].gpc[t] = "start"
                    /\ req'[r].gpc[t] # "start")
                   => IF key \in DOMAIN geocode_cache
                      THEN /\ req'[r].gpc[t] = "cached"
                           /\ req'[r].coords[t] = geocode_cache[key]
                           /\ geocode_cache' = geocode_cache
                      ELSE req'[r].gpc[t] = "http"
                /\ (/\ req[r].pc = "gather" /\ req[r].gpc[t] = "http"
                    /\ req'[r].gpc[t] = "fetched")
                   => (/\ key \in DOMAIN geocode_cache'
                       /\ geocode_cache'[key] = req'[r].coords[t])
       /\ \A r \in Requests :
            LET key == RouteKey(req[r].coords[1], req[r].coords[2])
            IN  /\ (req[r].pc = "route_http" /\ req'[r].status = 502)
                   => route_cache' = route_cache
                /\ (req[r].pc = "route" /\ req'[r].pc # "route")
                   => IF key \in DOMAIN route_cache
                      THEN /\ req'[r].pc = "compute"
                           /\ req'[r].route = route_cache[key]
                      ELSE req'[r].pc = "route_http"
       /\ \A k \in DOMAIN route_cache' : route_cache'[k] # None
      ]_vars

\* a lookup returned a cached not-found entry, and a routing lookup has
\* failed leaving no entry
C8_Witness ==
    /\ \E r \in Requests, t \in 1..2 :
          /\ req[r].pc = "gather"
          /\ req[r].gpc[t] = "cached"
          /\ req[r].coords[t] = None
          /\ geocode_cache[GeocodeKey(Location(r, t))] = None
    /\ \E r \in Requests : req[r].pc = "failed" /\ req[r].status = 502
    /\ route_cache = <<>>

\* C9: under every interleaving the caches are append-only: an entry once
\* written is never removed and never replaced by a different value (a
\* cached coordinate is never overwritten by a not-found entry).
C9_CachesAppendOnly ==
    [][/\ \A k \in DOMAIN geocode_cache :
            k \in DOMAIN geocode_cache' /\ geocode_cache'[k] = geocode_cache[k]
       /\ \A k \in DOMAIN route_cache :
            k \in DOMAIN route_cache' /\ route_cache'[k] = route_cache[k]
      ]_vars

=============================================================================
